---- MODULE Spec2Model ----
(***************************************************************************)
(* Model of lib/test_system/fix_pdb_alignment.py: one pass over a text     *)
(* file that rewrites ATOM/HETATM records into fixed-width columns and     *)
(* copies every other line.                                                *)
(*                                                                         *)
(* Text is a sequence of one-character strings.  A file is the sequence of *)
(* characters stored under its path; reading it goes through text mode     *)
(* (universal newlines), writing goes through a buffer that is flushed     *)
(* when the file is closed.                                                *)
(*                                                                         *)
(* Numbers: float() followed by a fixed-point format is modelled on the    *)
(* decimal digits of the token.  For short literals (at most 15            *)
(* significant digits, the only ones used here) this is what the double    *)
(* renders to, except when the decimal value lies exactly half way between *)
(* two renderings: there the side taken depends on the binary value of the *)
(* double, and the model leaves it open (the parameter up).                *)
(***************************************************************************)
EXTENDS Integers, Sequences, FiniteSets

\* ------------------------------------------------------------------ text

Max(a, b) == IF a >= b THEN a ELSE b

Spaces(n) == [i \in 1..n |-> " "]

\* str.__format__ with '<w': pad on the right up to width w, never clip.
Ljust(s, w) == s \o Spaces(Max(0, w - Len(s)))

\* Variant of Rjust that clips to the width, as a slice [-w:] after padding would.
Rjust_Clip(s, w) ==
    SubSeq(Spaces(Max(0, w - Len(s))) \o s, Max(0, Len(s) - w) + 1, Max(w, Len(s)))

\* str.__format__ with '>w' (and the padding of a number): pad on the left.
Rjust(s, w) == Spaces(Max(0, w - Len(s))) \o s

\* str.startswith
StartsWith(s, p) == Len(s) >= Len(p) /\ SubSeq(s, 1, Len(p)) = p

\* The whitespace str.split() separates on (its ASCII members used here).
Whitespace == {" ", "\t", "\n", "\r", "\f"}

\* The index of the first whitespace character of s at or after i, Len(s) + 1 if none.
NextSpace(s, i) ==
    IF \E k \in i..Len(s) : s[k] \in Whitespace
    THEN CHOOSE k \in i..Len(s) : s[k] \in Whitespace /\ \A j \in i..(k - 1) : s[j] \notin Whitespace
    ELSE Len(s) + 1

\* The index of the first other character of s at or after i, Len(s) + 1 if none.
NextWord(s, i) ==
    IF \E k \in i..Len(s) : s[k] \notin Whitespace
    THEN CHOOSE k \in i..Len(s) : s[k] \notin Whitespace /\ \A j \in i..(k - 1) : s[j] \in Whitespace
    ELSE Len(s) + 1

RECURSIVE SplitFrom(_, _, _)
\* The tokens of s from index i on, after the tokens acc.
SplitFrom(s, i, acc) ==
    IF NextWord(s, i) > Len(s) THEN acc
    ELSE SplitFrom(s, NextSpace(s, NextWord(s, i)),
                   Append(acc, SubSeq(s, NextWord(s, i), NextSpace(s, NextWord(s, i)) - 1)))

\* line.split(): the maximal runs of non-whitespace characters, in order.
Split(s) == SplitFrom(s, 1, <<>>)

\* ----------------------------------------------------------------- float

Digits == {"0", "1", "2", "3", "4", "5", "6", "7", "8", "9"}

DigitChars == <<"0", "1", "2", "3", "4", "5", "6", "7", "8", "9">>

DigitVal(c) == (CHOOSE i \in 1..10 : DigitChars[i] = c) - 1

AllDigits(s) == \A i \in 1..Len(s) : s[i] \in Digits

Zeros(n) == [i \in 1..n |-> "0"]

\* float() reads "nan", "inf", "infinity" and the exponent letter in any case.
Lower(c) ==
    CASE c = "N" -> "n"
      [] c = "A" -> "a"
      [] c = "I" -> "i"
      [] c = "F" -> "f"
      [] c = "T" -> "t"
      [] c = "Y" -> "y"
      [] c = "E" -> "e"
      [] OTHER -> c

LowerAll(s) == [i \in 1..Len(s) |-> Lower(s[i])]

\* Index of the first character of s that is in S, 0 when there is none.
FirstIdx(s, S) ==
    IF \E i \in 1..Len(s) : s[i] \in S
    THEN CHOOSE i \in 1..Len(s) : s[i] \in S /\ \A j \in 1..(i - 1) : s[j] \notin S
    ELSE 0

RECURSIVE NatOf(_)
NatOf(ds) == IF ds = <<>> THEN 0 ELSE 10 * NatOf(SubSeq(ds, 1, Len(ds) - 1)) + DigitVal(ds[Len(ds)])

\* The mantissa of a literal: digits, optionally a point, digits; at least one digit.
ParseMantissa(m) ==
    LET d == FirstIdx(m, {"."}) IN
    IF d = 0
    THEN [ok |-> m # <<>> /\ AllDigits(m), ip |-> m, fp |-> <<>>]
    ELSE LET ip == SubSeq(m, 1, d - 1)
             fp == SubSeq(m, d + 1, Len(m))
         IN  [ok |-> AllDigits(ip) /\ AllDigits(fp) /\ (ip # <<>> \/ fp # <<>>),
              ip |-> ip, fp |-> fp]

\* The exponent of a literal: optional sign, at least one digit.
ParseExponent(e) ==
    LET neg == e # <<>> /\ e[1] = "-"
        ds == IF e # <<>> /\ e[1] \in {"+", "-"} THEN Tail(e) ELSE e
    IN  [ok |-> ds # <<>> /\ AllDigits(ds),
         val |-> IF ds # <<>> /\ AllDigits(ds) THEN (IF neg THEN 0 - NatOf(ds) ELSE NatOf(ds)) ELSE 0]

\* ip.fp times 10^e, as digits before and after the point.
ShiftPoint(ip, fp, e) ==
    LET all == ip \o fp
        p == Len(ip) + e
    IN  IF p >= Len(all) THEN [ip |-> all \o Zeros(p - Len(all)), fp |-> <<>>]
        ELSE IF p <= 0 THEN [ip |-> <<>>, fp |-> Zeros(0 - p) \o all]
        ELSE [ip |-> SubSeq(all, 1, p), fp |-> SubSeq(all, p + 1, Len(all))]

NotANumber == [kind |-> "error", neg |-> FALSE, ip |-> <<>>, fp |-> <<>>]

\* float(tok) for a token without whitespace: kind "error" stands for ValueError.
float(tok) ==
    LET neg == tok # <<>> /\ tok[1] = "-"
        body == LowerAll(IF tok # <<>> /\ tok[1] \in {"+", "-"} THEN Tail(tok) ELSE tok)
        ei == FirstIdx(body, {"e"})
        man == ParseMantissa(IF ei = 0 THEN body ELSE SubSeq(body, 1, ei - 1))
        ex == IF ei = 0 THEN [ok |-> TRUE, val |-> 0]
              ELSE ParseExponent(SubSeq(body, ei + 1, Len(body)))
    IN  IF body = <<"n", "a", "n">>
        THEN [kind |-> "nan", neg |-> neg, ip |-> <<>>, fp |-> <<>>]
        ELSE IF body \in {<<"i", "n", "f">>, <<"i", "n", "f", "i", "n", "i", "t", "y">>}
        THEN [kind |-> "inf", neg |-> neg, ip |-> <<>>, fp |-> <<>>]
        ELSE IF man.ok /\ ex.ok
        THEN LET sh == ShiftPoint(man.ip, man.fp, ex.val)
             IN  [kind |-> "finite", neg |-> neg, ip |-> sh.ip, fp |-> sh.fp]
        ELSE NotANumber

RECURSIVE Increment(_)
\* The digit string plus one.
Increment(ds) ==
    IF ds = <<>> THEN <<"1">>
    ELSE IF ds[Len(ds)] = "9"
         THEN Increment(SubSeq(ds, 1, Len(ds) - 1)) \o <<"0">>
         ELSE SubSeq(ds, 1, Len(ds) - 1) \o <<DigitChars[DigitVal(ds[Len(ds)]) + 2]>>

RECURSIVE StripZeros(_)
StripZeros(ds) == IF Len(ds) > 1 /\ ds[1] = "0" THEN StripZeros(Tail(ds)) ELSE ds

\* The digits cut off by rounding: "below", "half" or "above" one half, or "zero".
Remainder(rest) ==
    IF \A i \in 1..Len(rest) : rest[i] = "0" THEN "zero"
    ELSE IF DigitVal(rest[1]) < 5 THEN "below"
    ELSE IF DigitVal(rest[1]) = 5 /\ \A i \in 2..Len(rest) : rest[i] = "0" THEN "half"
    ELSE "above"

\* Variant of RoundDigits that cuts the digits off instead of rounding.
RoundDigits_Truncate(v, prec, up) ==
    v.ip \o SubSeq(v.fp \o Zeros(Max(0, prec - Len(v.fp))), 1, prec)

\* The digits of a finite value rounded to prec decimals: up decides an exact half.
RoundDigits(v, prec, up) ==
    LET fpad == v.fp \o Zeros(Max(0, prec - Len(v.fp)))
        keep == v.ip \o SubSeq(fpad, 1, prec)
        rem == Remainder(SubSeq(fpad, prec + 1, Len(fpad)))
    IN  IF rem = "above" \/ (rem = "half" /\ up) THEN Increment(keep) ELSE keep

\* format(v, '.{prec}f') without padding.
FixedPoint(v, prec, up) ==
    IF v.kind = "nan" THEN <<"n", "a", "n">>
    ELSE IF v.kind = "inf" THEN (IF v.neg THEN <<"-">> ELSE <<>>) \o <<"i", "n", "f">>
    ELSE LET ds == RoundDigits(v, prec, up)
             n == Len(ds)
             int == IF n > prec THEN StripZeros(SubSeq(ds, 1, n - prec)) ELSE <<"0">>
         IN  (IF v.neg THEN <<"-">> ELSE <<>>) \o int \o <<".">> \o SubSeq(ds, n - prec + 1, n)

\* f"{float(tok):8.3f}" and f"{float(tok):6.2f}".
FormatFloat(tok, width, prec, up) == Rjust(FixedPoint(float(tok), prec, up), width)

\* ------------------------------------------------------- the line handler

ATOM == <<"A", "T", "O", "M">>

HETATM == <<"H", "E", "T", "A", "T", "M">>

\* The test of line 12, on the characters of the line.
IsCoordinateLine(line) == StartsWith(line, ATOM) \/ StartsWith(line, HETATM)

\* parts[11] if len(parts) > 11 else ''
Element(parts) == IF Len(parts) > 11 THEN parts[12] ELSE <<>>

\* The float() calls of lines 45-49 all succeed.
NumbersParse(parts) == \A i \in 7..11 : float(parts[i]).kind # "error"

\* Variant of formatted_line with three blanks, not four, after the residue number.
formatted_line_NarrowGap(parts, up) ==
    Ljust(parts[1], 6)
        \o Rjust(parts[2], 5)
        \o <<" ">>
        \o Ljust(parts[3], 4)
        \o <<" ">>
        \o Rjust(parts[4], 3)
        \o <<" ">>
        \o Rjust(parts[5], 1)
        \o Rjust(parts[6], 4)
        \o Spaces(3)
        \o FormatFloat(parts[7], 8, 3, up)
        \o FormatFloat(parts[8], 8, 3, up)
        \o FormatFloat(parts[9], 8, 3, up)
        \o FormatFloat(parts[10], 6, 2, up)
        \o FormatFloat(parts[11], 6, 2, up)
        \o Spaces(10)
        \o Rjust(Element(parts), 2)
        \o <<"\n">>

\* The f-string of lines 34-53.
formatted_line(parts, up) ==
    Ljust(parts[1], 6)
        \o Rjust(parts[2], 5)
        \o <<" ">>
        \o Ljust(parts[3], 4)
        \o <<" ">>
        \o Rjust(parts[4], 3)
        \o <<" ">>
        \o Rjust(parts[5], 1)
        \o Rjust(parts[6], 4)
        \o Spaces(4)
        \o FormatFloat(parts[7], 8, 3, up)
        \o FormatFloat(parts[8], 8, 3, up)
        \o FormatFloat(parts[9], 8, 3, up)
        \o FormatFloat(parts[10], 6, 2, up)
        \o FormatFloat(parts[11], 6, 2, up)
        \o Spaces(10)
        \o Rjust(Element(parts), 2)
        \o <<"\n">>

\* The line is one the loop body reformats (lines 12 and 15).
Qualifies(line) == IsCoordinateLine(line) /\ Len(Split(line)) >= 11

\* One pass of the loop body (lines 12-60) on one line: what is handed to
\* outfile.write, or the ValueError raised before anything is written.
ProcessLine(line, up) ==
    IF Qualifies(line)
    THEN IF NumbersParse(Split(line))
         THEN [raised |-> FALSE, text |-> formatted_line(Split(line), up)]
         ELSE [raised |-> TRUE, text |-> <<>>]
    ELSE [raised |-> FALSE, text |-> line]

\* ------------------------------------------------------------- text files

\* os.linesep of the platform the script is written for (the paths of lines 63-64).
LineSep == <<"\n">>

RECURSIVE EncodeNewlines(_)
\* Text-mode write: every "\n" of the text is stored as os.linesep.
EncodeNewlines(text) ==
    IF text = <<>> THEN <<>>
    ELSE IF Len(text) = 1 THEN (IF text[1] = "\n" THEN LineSep ELSE text)
    ELSE EncodeNewlines(SubSeq(text, 1, Len(text) \div 2))
            \o EncodeNewlines(SubSeq(text, Len(text) \div 2 + 1, Len(text)))

\* The index of the first line terminator of data at or after i, Len(data) + 1 if none.
LineEnd(data, i) ==
    IF \E k \in i..Len(data) : data[k] \in {"\n", "\r"}
    THEN CHOOSE k \in i..Len(data) :
            data[k] \in {"\n", "\r"} /\ \A j \in i..(k - 1) : data[j] \notin {"\n", "\r"}
    ELSE Len(data) + 1

\* Text-mode readline at offset pos (universal newlines): the line, with its
\* terminator "\n", "\r\n" or "\r" given as "\n", and the offset after it.
ReadLine(data, pos) ==
    LET e == LineEnd(data, pos + 1) IN
    IF e > Len(data)
    THEN [text |-> SubSeq(data, pos + 1, Len(data)), next |-> Len(data)]
    ELSE IF data[e] = "\r" /\ e < Len(data) /\ data[e + 1] = "\n"
         THEN [text |-> SubSeq(data, pos + 1, e - 1) \o <<"\n">>, next |-> e + 1]
         ELSE [text |-> SubSeq(data, pos + 1, e - 1) \o <<"\n">>, next |-> e]

RECURSIVE ReadLines(_, _)
\* Every line "for line in infile" yields from offset pos on.
ReadLines(data, pos) ==
    IF pos >= Len(data) THEN <<>>
    ELSE <<ReadLine(data, pos).text>> \o ReadLines(data, ReadLine(data, pos).next)

RECURSIVE Concat(_)
Concat(texts) == IF texts = <<>> THEN <<>> ELSE Head(texts) \o Concat(Tail(texts))

\* ------------------------------------------------------------- the inputs

RECURSIVE Join(_, _)
Join(tokens, sep) ==
    IF tokens = <<>> THEN <<>>
    ELSE IF Len(tokens) = 1 THEN tokens[1]
    ELSE tokens[1] \o sep \o Join(Tail(tokens), sep)

\* A line of a file: tokens apart by sep, after lead, ended by term.
MkLine(lead, tokens, sep, term) == lead \o Join(tokens, sep) \o term

LF == <<"\n">>

SP == <<" ">>

\* The record of the example of the specification: ATOM 1 N MET A 1 10.0 20.0 30.0 1.00 20.00 N
BaseTokens ==
    <<ATOM, <<"1">>, <<"N">>, <<"M", "E", "T">>, <<"A">>, <<"1">>,
      <<"1", "0", ".", "0">>, <<"2", "0", ".", "0">>, <<"3", "0", ".", "0">>, <<"1", ".", "0", "0">>, <<"2", "0", ".", "0", "0">>, <<"N">>>>

\* The tokens with token i replaced by tok.
With(tokens, i, tok) == [tokens EXCEPT ![i] = tok]

\* Tokens 1..11 followed by the element, when there is one.
WithElement(tokens, el) == IF el = <<>> THEN SubSeq(tokens, 1, 11) ELSE With(tokens, 12, el)

RecordTokens == 
    {ATOM, HETATM, <<"A", "T", "O", "M", "S">>,
     <<"H", "E", "T", "A", "T", "M", "1", "2", "3", "4", "5">>,
     <<"H", "E", "A", "D", "E", "R">>, <<"a", "t", "o", "m">>}

\* Lines that differ in the first token, in leading whitespace and in the number of tokens.
ClassLines ==
    {MkLine(lead, SubSeq(With(BaseTokens, 1, rec), 1, n), SP, LF) :
        lead \in {<<>>, SP}, rec \in RecordTokens, n \in {8, 11, 12}}

\* Lines whose serial, chain id and residue number fill or exceed their columns.
WidthLines ==
    {MkLine(<<>>, WithElement(With(With(With(With(BaseTokens, 1, rec), 2, ser), 5, ch), 6, num), el), SP, LF) :
        rec \in {ATOM, HETATM}, ser \in {<<"1">>, <<"1", "2", "3", "4", "5">>, <<"1", "2", "3", "4", "5", "6">>}, ch \in {<<"A">>, <<"A", "B">>}, num \in {<<"1">>, <<"1", "0", "0", "0">>, <<"1", "2", "3", "4", "5">>}, el \in {<<>>, <<"N">>}}

\* Lines whose atom name, residue name and element fill or exceed their columns.
NameLines ==
    {MkLine(<<>>, WithElement(With(With(BaseTokens, 3, nm), 4, res), el), SP, LF) :
        nm \in {<<"N">>, <<"H", "G", "1", "1">>, <<"H", "G", "1", "2", "3">>}, res \in {<<"M", "E", "T">>, <<"A", "L">>, <<"M", "E", "T", "X">>}, el \in {<<>>, <<"N">>, <<"F", "E">>, <<"F", "E", "X">>}}

CoordTokens == 
    {<<"1", "0", ".", "0">>,
     <<"1">>,
     <<"-", "1", "2", ".", "3", "4", "5", "6">>,
     <<"-", "1", "0", "0", ".", "0", "0", "0">>,
     <<"-", "1", "2", "3", "4", "5", "6", "7">>,
     <<"9", "9", "9", ".", "9", "9", "9", "6">>,
     <<"0", ".", "0", "6", "2", "5">>,
     <<"-", "0", ".", "0", "0", "0", "1">>,
     <<".", "5">>,
     <<"1", "e", "2">>,
     <<"n", "a", "n">>,
     <<"-", "i", "n", "f">>,
     <<"a", "b", "c">>}

OccTokens == 
    {<<"1", ".", "0", "0">>,
     <<"1">>,
     <<"2", ".", "6", "7", "5">>,
     <<"0", ".", "1", "2", "5">>,
     <<"1", "0", "0", "0", ".", "5">>,
     <<"1", "0", "0", ".", "0", "0">>,
     <<"x">>}

\* Lines that differ in the coordinates.
CoordLines ==
    {MkLine(<<>>, With(With(BaseTokens, 7, x), 8, y), SP, LF) :
        x \in CoordTokens, y \in {<<"2", "0", ".", "0">>, <<"-", "2", "0", "0", ".", "0", "0", "0">>}}

\* Lines that differ in occupancy and B-factor.
OccLines ==
    {MkLine(<<>>, With(With(BaseTokens, 10, o), 11, b), SP, LF) :
        o \in OccTokens, b \in {<<"2", "0", ".", "0", "0">>, <<"1", "0", "0", ".", "0", "0">>, <<"-", "0">>}}

\* Lines that differ in separators and in the line terminator, and lines of other records.
LayoutLines ==
    {MkLine(<<>>, toks, sep, term) :
        toks \in {BaseTokens, SubSeq(BaseTokens, 1, 8), <<<<"H", "E", "A", "D", "E", "R">>, <<"x">>>>, <<>>},
        sep \in {SP, <<" ", " ">>, <<"\t">>},
        term \in {LF, <<"\r", "\n">>, <<>>}}

\* The one-line files.
LinePool == ClassLines \cup WidthLines \cup NameLines \cup CoordLines \cup OccLines \cup LayoutLines

\* The pieces of the longer files: a piece without terminator runs into the next one.
PiecePool ==
    {MkLine(<<>>, BaseTokens, SP, LF),
     MkLine(<<>>, BaseTokens, SP, <<>>),
     MkLine(<<>>, With(With(BaseTokens, 5, <<"A">>), 6, <<"1", "0", "0", "0">>), SP, LF),
     MkLine(<<>>, With(BaseTokens, 9, <<"3", "x">>), SP, LF),
     MkLine(<<>>, SubSeq(BaseTokens, 1, 8), SP, LF),
     MkLine(<<>>, <<<<"H", "E", "A", "D", "E", "R">>, <<"x">>>>, SP, <<"\r", "\n">>),
     MkLine(<<>>, <<<<"H", "E", "A", "D", "E", "R">>>>, SP, LF),
     MkLine(<<>>, <<<<"E", "N", "D">>>>, SP, <<>>)}

\* The most pieces of a file.
MaxLines == 2

\* The files: one line of LinePool, or up to MaxLines pieces.
Files ==
    LinePool \cup UNION {{Concat([i \in 1..n |-> ps[i]]) : ps \in [1..n -> PiecePool]} : n \in 0..MaxLines}

\* -------------------------------------------------------------- the state

\* The paths of lines 63-64.
Paths == {"1ycr-mod.pdb", "1ycr-mod-fixed.pdb"}

NoFile == [exists |-> FALSE, data |-> <<>>]

File(data) == [exists |-> TRUE, data |-> data]

\* What the other path holds before the call, when it holds a file.
OldText == <<"o", "l", "d", "\n">>

\* The most calls of fix_pdb_alignment in a row (specification SpecTwice).
MaxRuns == 2

VARIABLES
    fs,           \* the files on disk: path -> [exists, data]
    input_file,   \* the arguments of the call
    output_file,
    pc,           \* "start", "open_out", "loop", "returned", "raised"
    err,          \* the exception that left the function, "none" so far
    infile,       \* [open, pos]: the input stream and its read offset
    outfile,      \* [open, buf]: the output stream and its unflushed text
    consumed,     \* the lines the loop has taken from infile, in order
    written,      \* the texts handed to outfile.write, in order
    fs0,          \* the files on disk when the call started
    run,          \* the number of this call
    first         \* what the call before this one read and left: [ran, inp, out]

vars == <<fs, input_file, output_file, pc, err, infile, outfile, consumed, written, fs0, run, first>>

\* The state when fix_pdb_alignment(input_file, output_file) is entered (line 7).
Init ==
    /\ \E f \in Files, old \in {NoFile, File(OldText)} :
          fs = [p \in Paths |-> IF p = "1ycr-mod.pdb" THEN File(f) ELSE old]
    /\ input_file \in Paths
    /\ output_file \in Paths
    /\ pc = "start"
    /\ err = "none"
    /\ infile = [open |-> FALSE, pos |-> 0]
    /\ outfile = [open |-> FALSE, buf |-> <<>>]
    /\ consumed = <<>>
    /\ written = <<>>
    /\ fs0 = fs
    /\ run = 1
    /\ first = [ran |-> FALSE, inp |-> <<>>, out |-> <<>>]

\* The files on disk after the stream to path is closed: its buffer is flushed.
Flushed(files, path, buf) == [files EXCEPT ![path].data = @ \o buf]

\* Leaving the with statement of line 10, by return or by exception: outfile
\* is closed (its buffer flushed), then infile.
ExitWith(pos) ==
    /\ fs' = Flushed(fs, output_file, outfile.buf)
    /\ outfile' = [open |-> FALSE, buf |-> <<>>]
    /\ infile' = [open |-> FALSE, pos |-> pos]

\* open(input_file, 'r') succeeds (line 10).
OpenInput ==
    /\ pc = "start"
    /\ fs[input_file].exists
    /\ infile' = [open |-> TRUE, pos |-> 0]
    /\ pc' = "open_out"
    /\ UNCHANGED <<fs, input_file, output_file, err, outfile, consumed, written, fs0, run, first>>

\* open(input_file, 'r') raises: there is no such file (line 10).
OpenInputFail ==
    /\ pc = "start"
    /\ ~fs[input_file].exists
    /\ pc' = "raised"
    /\ err' = "FileNotFoundError"
    /\ UNCHANGED <<fs, input_file, output_file, infile, outfile, consumed, written, fs0, run, first>>

\* open(output_file, 'w') succeeds: the file is created or truncated (line 10).
OpenOutput ==
    /\ pc = "open_out"
    /\ fs' = [fs EXCEPT ![output_file] = File(<<>>)]
    /\ outfile' = [open |-> TRUE, buf |-> <<>>]
    /\ pc' = "loop"
    /\ UNCHANGED <<input_file, output_file, err, infile, consumed, written, fs0, run, first>>

\* Variant of OpenOutputFail that leaves infile open, as two separate opens
\* outside one with statement would.
OpenOutputFail_Leak ==
    /\ pc = "open_out"
    /\ pc' = "raised"
    /\ err' = "OSError"
    /\ UNCHANGED <<fs, input_file, output_file, infile, outfile, consumed, written, fs0, run, first>>

\* open(output_file, 'w') raises (the path cannot be written): the with
\* statement closes infile and the error leaves the function (line 10).
OpenOutputFail ==
    /\ pc = "open_out"
    /\ infile' = [infile EXCEPT !.open = FALSE]
    /\ pc' = "raised"
    /\ err' = "OSError"
    /\ UNCHANGED <<fs, input_file, output_file, outfile, consumed, written, fs0, run, first>>

\* The loop has a next line (line 11).
HasLine == pc = "loop" /\ infile.pos < Len(fs[input_file].data)

\* The next line of infile.
NextLine == ReadLine(fs[input_file].data, infile.pos)

\* Variant of WriteLine without the else branch of lines 55-57: a coordinate
\* line with fewer than 11 tokens is consumed and not written.
WriteLine_SkipShort ==
    /\ HasLine
    /\ \E up \in BOOLEAN :
          /\ ~ProcessLine(NextLine.text, up).raised
          /\ IF IsCoordinateLine(NextLine.text) /\ ~Qualifies(NextLine.text)
             THEN UNCHANGED <<outfile, written>>
             ELSE /\ outfile' = [outfile EXCEPT !.buf = @ \o EncodeNewlines(ProcessLine(NextLine.text, up).text)]
                  /\ written' = Append(written, ProcessLine(NextLine.text, up).text)
    /\ infile' = [infile EXCEPT !.pos = NextLine.next]
    /\ consumed' = Append(consumed, NextLine.text)
    /\ UNCHANGED <<fs, input_file, output_file, pc, err, fs0, run, first>>

\* One iteration of the loop that writes (lines 11-60).
WriteLine ==
    /\ HasLine
    /\ \E up \in BOOLEAN :
          /\ ~ProcessLine(NextLine.text, up).raised
          /\ outfile' = [outfile EXCEPT !.buf = @ \o EncodeNewlines(ProcessLine(NextLine.text, up).text)]
          /\ written' = Append(written, ProcessLine(NextLine.text, up).text)
    /\ infile' = [infile EXCEPT !.pos = NextLine.next]
    /\ consumed' = Append(consumed, NextLine.text)
    /\ UNCHANGED <<fs, input_file, output_file, pc, err, fs0, run, first>>

\* Variant of RaiseValueError that catches the error per line and goes on
\* with the next line.
RaiseValueError_Continue ==
    /\ HasLine
    /\ ProcessLine(NextLine.text, TRUE).raised
    /\ consumed' = Append(consumed, NextLine.text)
    /\ infile' = [infile EXCEPT !.pos = NextLine.next]
    /\ UNCHANGED <<fs, input_file, output_file, pc, err, outfile, written, fs0, run, first>>

\* One iteration of the loop in which float() raises (lines 45-49): nothing is
\* written, the with statement closes both files, the error leaves the function.
RaiseValueError ==
    /\ HasLine
    /\ ProcessLine(NextLine.text, TRUE).raised
    /\ consumed' = Append(consumed, NextLine.text)
    /\ ExitWith(NextLine.next)
    /\ pc' = "raised"
    /\ err' = "ValueError"
    /\ UNCHANGED <<input_file, output_file, written, fs0, run, first>>

\* The loop ends at the end of infile; the with statement closes both files.
Return ==
    /\ pc = "loop"
    /\ infile.pos >= Len(fs[input_file].data)
    /\ ExitWith(infile.pos)
    /\ pc' = "returned"
    /\ UNCHANGED <<input_file, output_file, err, consumed, written, fs0, run, first>>

Next ==
    \/ OpenInput
    \/ OpenInputFail
    \/ OpenOutput
    \/ OpenOutputFail
    \/ WriteLine
    \/ RaiseValueError
    \/ Return

Spec == Init /\ [][Next]_vars

\* A second call, on the output of the call that returned, into the other path.
Again ==
    /\ pc = "returned"
    /\ run < MaxRuns
    /\ run' = run + 1
    /\ first' = [ran |-> TRUE, inp |-> fs0[input_file].data, out |-> fs[output_file].data]
    /\ input_file' = output_file
    /\ output_file' \in Paths \ {output_file}
    /\ pc' = "start"
    /\ consumed' = <<>>
    /\ written' = <<>>
    /\ fs0' = fs
    /\ UNCHANGED <<fs, err, infile, outfile>>

NextTwice == Next \/ Again

SpecTwice == Init /\ [][NextTwice]_vars

\* ------------------------------------------------------------ the claims

\* The lines the input stream of this call holds.
InputLines == ReadLines(fs[input_file].data, 0)

\* The text of the output so far: what is on disk and what is still buffered.
Out == fs[output_file].data \o outfile.buf

\* field is tok after spaces only.
RightJustified(field, tok) ==
    /\ Len(field) >= Len(tok)
    /\ SubSeq(field, Len(field) - Len(tok) + 1, Len(field)) = tok
    /\ \A i \in 1..(Len(field) - Len(tok)) : field[i] = " "

\* field is tok before spaces only.
LeftJustified(field, tok) ==
    /\ Len(field) >= Len(tok)
    /\ SubSeq(field, 1, Len(tok)) = tok
    /\ \A i \in (Len(tok) + 1)..Len(field) : field[i] = " "

\* The nominal widths of the twelve fields and the blank columns after each.
Widths == <<6, 5, 4, 3, 1, 4, 8, 8, 8, 6, 6, 2>>

Gaps == <<0, 1, 1, 1, 0, 4, 0, 0, 0, 0, 10, 0>>

\* The decimals of the five numeric fields (fields 7..11).
Decimals == <<0, 0, 0, 0, 0, 0, 3, 3, 3, 2, 2, 0>>

RECURSIVE RawLines(_, _, _)
\* The first n lines of the text from offset pos on, with their terminators as stored.
RawLines(data, pos, n) ==
    IF pos >= Len(data) \/ n = 0 THEN <<>>
    ELSE <<SubSeq(data, pos + 1, ReadLine(data, pos).next)>>
            \o RawLines(data, ReadLine(data, pos).next, n - 1)

\* C1 (as claimed): a line is reformatted exactly when its first
\* whitespace-delimited token is ATOM or HETATM and it has at least 11 tokens;
\* every other line is copied unchanged.
C1_FirstTokenDecides ==
    \A k \in 1..Len(written) :
        LET parts == Split(consumed[k]) IN
        IF Len(parts) >= 11 /\ parts[1] \in {ATOM, HETATM}
        THEN \E up \in BOOLEAN : written[k] = formatted_line(parts, up)
        ELSE written[k] = consumed[k]

\* Every ATOM/HETATM line of the text has at least 11 tokens and parsable numbers.
WellFormed(data) ==
    LET lines == ReadLines(data, 0) IN
    \A k \in 1..Len(lines) :
        IsCoordinateLine(lines[k]) =>
            Len(Split(lines[k])) >= 11 /\ NumbersParse(Split(lines[k]))

\* C2 (as claimed): a second run, on the output of a first run on a well-formed
\* file, ends without error and leaves the same bytes as the first run.
C2_Idempotent ==
    (run = 2 /\ first.ran /\ WellFormed(first.inp) /\ pc \in {"returned", "raised"} /\ err # "OSError")
        => pc = "returned" /\ fs[output_file].data = first.out

\* C3: while the run has not failed, as many texts were written as lines were
\* consumed, the consumed lines are the first lines of the input in order, the
\* k-th text written is the result of the k-th line alone, the output holds
\* these texts in order; on return the output has as many lines as the input.
C3_LineCountAndOrder ==
    pc \in {"loop", "returned"} =>
        /\ Len(written) = Len(consumed)
        /\ Len(consumed) <= Len(InputLines)
        /\ consumed = SubSeq(InputLines, 1, Len(consumed))
        /\ \A k \in 1..Len(written) :
              \E up \in BOOLEAN :
                  ProcessLine(consumed[k], up) = [raised |-> FALSE, text |-> written[k]]
        /\ Out = Concat([k \in 1..Len(written) |-> EncodeNewlines(written[k])])
        /\ pc = "returned" =>
              /\ Len(consumed) = Len(InputLines)
              /\ Len(ReadLines(fs[output_file].data, 0)) = Len(InputLines)

\* C3 witness: a run returned on a two-line input whose last line has no newline.
C3_Witness ==
    /\ pc = "returned"
    /\ input_file # output_file
    /\ Len(consumed) = 2
    /\ fs[input_file].data[Len(fs[input_file].data)] \notin {"\n", "\r"}
    /\ Len(ReadLines(fs[output_file].data, 0)) = 2


\* C4 (as claimed): every input line that does not start with ATOM or HETATM,
\* or has fewer than 11 tokens, is in the output at the same position,
\* character for character, its line ending included.
C4_PassthroughIdentical ==
    (pc = "returned" /\ input_file # output_file) =>
        LET ins == RawLines(fs0[input_file].data, 0, Len(fs0[input_file].data))
            outs == RawLines(fs[output_file].data, 0, Len(fs[output_file].data))
        IN  \A k \in 1..Len(ins) :
                ~Qualifies(ins[k]) => k <= Len(outs) /\ outs[k] = ins[k]

\* The layout of a line of 78 columns and a newline, field by field.
ColumnExact(parts, text, up) ==
    /\ Len(text) = 79
    /\ text[79] = "\n"
    /\ LeftJustified(SubSeq(text, 1, 6), parts[1])
    /\ RightJustified(SubSeq(text, 7, 11), parts[2])
    /\ text[12] = " "
    /\ LeftJustified(SubSeq(text, 13, 16), parts[3])
    /\ text[17] = " "
    /\ RightJustified(SubSeq(text, 18, 20), parts[4])
    /\ text[21] = " "
    /\ SubSeq(text, 22, 22) = parts[5]
    /\ RightJustified(SubSeq(text, 23, 26), parts[6])
    /\ SubSeq(text, 27, 30) = Spaces(4)
    /\ RightJustified(SubSeq(text, 31, 38), FixedPoint(float(parts[7]), 3, up))
    /\ RightJustified(SubSeq(text, 39, 46), FixedPoint(float(parts[8]), 3, up))
    /\ RightJustified(SubSeq(text, 47, 54), FixedPoint(float(parts[9]), 3, up))
    /\ RightJustified(SubSeq(text, 55, 60), FixedPoint(float(parts[10]), 2, up))
    /\ RightJustified(SubSeq(text, 61, 66), FixedPoint(float(parts[11]), 2, up))
    /\ SubSeq(text, 67, 76) = Spaces(10)
    /\ RightJustified(SubSeq(text, 77, 78), Element(parts))

\* Every token is at most as long as its field is wide.
TokensFit(parts) ==
    /\ \A i \in 1..11 : Len(parts[i]) <= Widths[i]
    /\ Len(Element(parts)) <= Widths[12]

\* The tokens that are copied fit their fields, and so do the numbers as rendered.
FieldsFit(parts) ==
    /\ \A i \in 1..6 : Len(parts[i]) <= Widths[i]
    /\ Len(Element(parts)) <= Widths[12]
    /\ \A i \in 7..11 : \A up \in BOOLEAN :
          Len(FixedPoint(float(parts[i]), Decimals[i], up)) <= Widths[i]

\* C5 (as claimed): a qualifying line whose tokens each fit their field's
\* width is written as 78 columns and a newline, every field in its columns.
C5_ColumnExactWhenTokensFit ==
    \A k \in 1..Len(written) :
        (Qualifies(consumed[k]) /\ TokensFit(Split(consumed[k])))
            => \E up \in BOOLEAN : ColumnExact(Split(consumed[k]), written[k], up)

\* C5 (amended): a qualifying line whose copied tokens fit their fields and
\* whose numbers, as rendered with 3 and 2 decimals, fit theirs is written as
\* 78 columns and a newline, every field in its columns.
C5_ColumnExactWhenFieldsFit ==
    \A k \in 1..Len(written) :
        (Qualifies(consumed[k]) /\ FieldsFit(Split(consumed[k])))
            => \E up \in BOOLEAN : ColumnExact(Split(consumed[k]), written[k], up)

\* C5 witness: a written line whose serial, chain id and residue number fill
\* their columns, so that chain id and residue number touch.
C5_Witness ==
    \E k \in 1..Len(written) :
        /\ Qualifies(consumed[k])
        /\ FieldsFit(Split(consumed[k]))
        /\ Len(Split(consumed[k])[2]) = 5
        /\ Len(Split(consumed[k])[6]) = 4
        /\ SubSeq(written[k], 22, 26) = <<"A", "1", "0", "0", "0">>

\* The loop body raises on the line: it qualifies and one of tokens 7..11 is
\* not a number float() reads.
Unparsable(line) ==
    Qualifies(line) /\ \E i \in 7..11 : float(Split(line)[i]).kind = "error"

\* C6: no line with an unparsable number is passed over; when the run fails
\* with ValueError the offending line is the last one consumed and the first
\* such line of the input, nothing was written for it, both files are closed
\* and the output holds the results of the lines before it, in order; a run
\* that returns met no such line.
C6_FailureSemantics ==
    /\ pc \in {"loop", "returned"} =>
          \A k \in 1..Len(consumed) : ~Unparsable(consumed[k])
    /\ pc = "returned" =>
          \A k \in 1..Len(InputLines) : ~Unparsable(InputLines[k])
    /\ (pc = "raised" /\ err = "ValueError") =>
          /\ consumed # <<>>
          /\ Len(consumed) <= Len(InputLines)
          /\ consumed = SubSeq(InputLines, 1, Len(consumed))
          /\ infile.pos = Len(Concat(RawLines(fs[input_file].data, 0, Len(consumed))))
          /\ Unparsable(consumed[Len(consumed)])
          /\ \A k \in 1..(Len(consumed) - 1) : ~Unparsable(consumed[k])
          /\ Len(written) = Len(consumed) - 1
          /\ \A k \in 1..Len(written) :
                \E up \in BOOLEAN :
                    ProcessLine(consumed[k], up) = [raised |-> FALSE, text |-> written[k]]
          /\ ~outfile.open
          /\ fs[output_file].data = Concat([k \in 1..Len(written) |-> EncodeNewlines(written[k])])
    /\ (pc = "raised" /\ err # "ValueError") => consumed = <<>> /\ written = <<>>

\* C6 witness: the run failed on the second of the lines of its input, after
\* writing the first.
C6_Witness ==
    /\ pc = "raised"
    /\ err = "ValueError"
    /\ Len(written) = 1
    /\ Len(ReadLines(fs0[input_file].data, 0)) = 2
    /\ fs[output_file].data = EncodeNewlines(written[1])

RECURSIVE Pow10(_)
Pow10(n) == IF n <= 0 THEN 1 ELSE 10 * Pow10(n - 1)

Abs(n) == IF n < 0 THEN 0 - n ELSE n

\* The index of the first character of text at or after i that is not in S.
SkipAll(text, i, S) ==
    IF \E k \in i..Len(text) : text[k] \notin S
    THEN CHOOSE k \in i..Len(text) : text[k] \notin S /\ \A j \in i..(k - 1) : text[j] \in S
    ELSE Len(text) + 1

\* Reads, from index start of text: spaces, an optional minus, digits, a point
\* and exactly prec digits.  to is the index of the last of them.
ScanFixed(text, start, prec) ==
    LET b == SkipAll(text, start, {" "})
        neg == b <= Len(text) /\ text[b] = "-"
        d == IF neg THEN b + 1 ELSE b
        pt == SkipAll(text, d, Digits)
        to == pt + prec
    IN  [ok |-> /\ pt > d
                /\ to <= Len(text)
                /\ text[pt] = "."
                /\ AllDigits(SubSeq(text, pt + 1, to)),
         body |-> b, neg |-> neg, int |-> SubSeq(text, d, pt - 1),
         frac |-> SubSeq(text, pt + 1, to), to |-> to]

\* The scanned number is the decimal value of the token rounded to prec
\* decimals: no number of prec decimals is nearer to the value.
Nearest(tok, scan, prec) ==
    LET v == float(tok)
        n == NatOf(v.ip \o v.fp)
        m == NatOf(scan.int \o scan.frac)
        a == Len(v.fp) - prec
    IN  /\ IF a >= 0 THEN 2 * Abs(m * Pow10(a) - n) <= Pow10(a)
                     ELSE m = n * Pow10(0 - a)
        /\ scan.neg => v.neg
        /\ (v.neg /\ m > 0) => scan.neg

\* From index start, text holds a number of exactly prec decimals, right-justified
\* in width characters (or longer, without padding), which is the token rounded.
RenderedAsNumber(text, start, tok, width, prec) ==
    LET scan == ScanFixed(text, start, prec) IN
    /\ scan.ok
    /\ scan.to - start + 1 >= width
    /\ (scan.to - start + 1 > width) => scan.body = start
    /\ Nearest(tok, scan, prec)

\* From index start, text holds nan, inf or -inf right-justified in width characters.
RenderedAsSpecial(text, start, tok, width) ==
    LET b == SkipAll(text, start, {" "})
        name == IF float(tok).kind = "nan" THEN <<"n", "a", "n">>
                ELSE (IF float(tok).neg THEN <<"-">> ELSE <<>>) \o <<"i", "n", "f">>
    IN  /\ b + Len(name) - 1 = start + width - 1
        /\ SubSeq(text, b, b + Len(name) - 1) = name

\* Where a numeric field that starts at index start ends.
FieldEnd(text, start, tok, width, prec) ==
    IF float(tok).kind = "finite" THEN ScanFixed(text, start, prec).to ELSE start + width - 1

\* The index at which the field of x starts: after the six fields before it.
CoordStart(parts) ==
    Max(6, Len(parts[1])) + Max(5, Len(parts[2])) + 1 + Max(4, Len(parts[3])) + 1
        + Max(3, Len(parts[4])) + 1 + Max(1, Len(parts[5])) + Max(4, Len(parts[6])) + 4 + 1

RECURSIVE NumbersRendered(_, _, _, _, _)
\* Fields i..11 of text, the first at index start, are each rendered as claimed;
\* with finiteOnly, only the tokens that denote a finite number are looked at.
NumbersRendered(text, parts, i, start, finiteOnly) ==
    IF i > 11 THEN TRUE
    ELSE /\ IF float(parts[i]).kind = "finite"
            THEN RenderedAsNumber(text, start, parts[i], Widths[i], Decimals[i])
            ELSE finiteOnly /\ RenderedAsSpecial(text, start, parts[i], Widths[i])
         /\ NumbersRendered(text, parts, i + 1,
                            FieldEnd(text, start, parts[i], Widths[i], Decimals[i]) + 1, finiteOnly)

\* C7 (as claimed): in every line written for a qualifying line, x, y and z are
\* their values rounded to exactly 3 decimals, right-justified in width 8, and
\* occupancy and B-factor their values rounded to exactly 2 decimals,
\* right-justified in width 6.
C7_NumbersRounded ==
    \A k \in 1..Len(written) :
        Qualifies(consumed[k]) =>
            NumbersRendered(written[k], Split(consumed[k]), 7, CoordStart(Split(consumed[k])), FALSE)

\* C7 (amended): the same for every token that denotes a finite number; a token
\* float() reads as nan or an infinity is written as nan, inf or -inf,
\* right-justified in the width of its field.
C7_FiniteNumbersRounded ==
    \A k \in 1..Len(written) :
        Qualifies(consumed[k]) =>
            NumbersRendered(written[k], Split(consumed[k]), 7, CoordStart(Split(consumed[k])), TRUE)

\* C7 witness: the token -12.3456 was written as -12.346 in columns 31-38, next
\* to a coordinate that fills its eight columns.
C7_Witness ==
    \E k \in 1..Len(written) :
        /\ Qualifies(consumed[k])
        /\ Split(consumed[k])[7] = <<"-", "1", "2", ".", "3", "4", "5", "6">>
        /\ SubSeq(written[k], 31, 38) = <<" ", "-", "1", "2", ".", "3", "4", "6">>
        /\ SubSeq(written[k], 39, 46) = <<"-", "2", "0", "0", ".", "0", "0", "0">>

\* C8: once the function has returned or raised, no file is open and nothing
\* is left in a buffer; the output is open only while the input is; when
\* opening the input failed the output was not opened: no file was created,
\* truncated or changed.
C8_ResourceScoping ==
    /\ pc \in {"returned", "raised"} => ~infile.open /\ ~outfile.open /\ outfile.buf = <<>>
    /\ outfile.open => infile.open
    /\ pc \in {"start", "open_out"} => ~outfile.open
    /\ (pc = "raised" /\ err = "FileNotFoundError") => fs = fs0

\* C8 witness: opening the output failed after the input had been opened and
\* the function raised.
C8_Witness ==
    /\ pc = "raised"
    /\ err = "OSError"
    /\ fs[input_file].exists
    /\ ~infile.open

\* The text of field i of a qualifying line: the token, or the number rendered.
FieldText(parts, i, up) ==
    IF i \in 7..11 THEN FixedPoint(float(parts[i]), Decimals[i], up)
    ELSE IF i = 12 THEN Element(parts)
    ELSE parts[i]

\* The characters field i takes: its width, or more when its text is longer.
FieldLen(parts, i, up) == Max(Widths[i], Len(FieldText(parts, i, up)))

RECURSIVE FieldStart(_, _, _)
\* The index at which field i starts when the fields before it took what they need.
FieldStart(parts, i, up) ==
    IF i = 1 THEN 1
    ELSE FieldStart(parts, i - 1, up) + FieldLen(parts, i - 1, up) + Gaps[i - 1]

RECURSIVE Excess(_, _, _)
\* The characters by which fields 1..i exceed their widths.
Excess(parts, i, up) ==
    IF i = 0 THEN 0
    ELSE Excess(parts, i - 1, up) + FieldLen(parts, i, up) - Widths[i]

\* The text holds every field in full, each where the ones before it let it
\* start, and is as long as 78 columns, the newline and the excess.
NothingClipped(parts, text, up) ==
    /\ Len(text) = 79 + Excess(parts, 12, up)
    /\ text[Len(text)] = "\n"
    /\ \A i \in 1..12 :
          LET field == SubSeq(text, FieldStart(parts, i, up),
                              FieldStart(parts, i, up) + FieldLen(parts, i, up) - 1)
          IN  IF i \in {1, 3}
              THEN LeftJustified(field, FieldText(parts, i, up))
              ELSE RightJustified(field, FieldText(parts, i, up))

\* C9: in every line written for a qualifying line each token that is copied
\* (record type, serial, atom name, residue name, chain id, residue number,
\* element) is there in full, also when longer than its field; the line is 79
\* characters plus the characters by which fields exceed their widths, and
\* every later field is shifted right by the excess before it.
C9_NoTruncation ==
    \A k \in 1..Len(written) :
        Qualifies(consumed[k]) =>
            \E up \in BOOLEAN : NothingClipped(Split(consumed[k]), written[k], up)

\* C9 witness: a written line that is longer than 79 characters because its
\* serial has six digits and its residue number five.
C9_Witness ==
    \E k \in 1..Len(written) :
        /\ Qualifies(consumed[k])
        /\ Len(Split(consumed[k])[2]) = 6
        /\ Len(Split(consumed[k])[6]) = 5
        /\ Len(written[k]) = 81

\* C10 (as claimed): after a run that returned, the output file holds one line
\* for each line the input file held when the run started, also when both
\* paths name the same file; when the paths differ the input file is unchanged.
C10_OutputHoldsEveryInputLine ==
    pc = "returned" =>
        /\ fs0[input_file].exists
        /\ Len(ReadLines(fs[output_file].data, 0)) = Len(ReadLines(fs0[input_file].data, 0))
        /\ input_file # output_file => fs[input_file] = fs0[input_file]

====
